---------------------------- MODULE Spec2Model ----------------------------
(***************************************************************************)
(* Google Forms -> Asana webhook relay.                                    *)
(*                                                                         *)
(* Two variants of the server exist: server.js resolves the section id by  *)
(* name with a listing call at run time, unnamed/part_000 stores the       *)
(* section gids in SECTION_MAP.  Both are modelled; the variable           *)
(* `variant` says which one is deployed.                                   *)
(*                                                                         *)
(* JavaScript strings are TLA+ strings (Len, \o and SubSeq act on them).   *)
(* The emoji of the source are multi-byte characters the TLA+ lexer does   *)
(* not accept; each is written as an ASCII name in parentheses:            *)
(*   (new) (tools) (sparkles) (books) (receipt) (question)                  *)
(* JavaScript values that need not be strings (a property read, the        *)
(* result of ||) are records tagged by `type`.                             *)
(***************************************************************************)
EXTENDS Integers, Sequences, FiniteSets, TLC

VARIABLES
    variant,    \* which server file is deployed
    sections,   \* the tracker's section listing for the project
    req,        \* per webhook request: position in the handler and its locals
    tasks,      \* the tasks the tracker has created, in creation order, each
                \* with the request whose call created it (by)
    tables,     \* the table objects of the server process, as they are in memory
    get,        \* the GET request being served (/ or /debug-sections)
    sheet,      \* the response sheet of the form: one record per data row
    script      \* the Apps Script execution: function, row, position

vars == <<variant, sections, req, tasks, tables, get, sheet, script>>

---------------------------------------------------------------------------
(* Bounds *)

\* number of webhook requests in flight together
MaxRequests == 2

\* data rows of the response sheet
MaxRows == 2

\* executions of the script's functions
MaxRuns == 2

---------------------------------------------------------------------------
(* JavaScript values *)

Str(s) == [type |-> "string", str |-> s]
Undefined == [type |-> "undefined"]
Null == [type |-> "null"]
Builtin(n) == [type |-> "function", name |-> n]
ProtoObject == [type |-> "object", name |-> "Object.prototype"]

\* an exception thrown instead of a value returned
Throw(m) == [throw |-> m]
Threw(v) == "throw" \in DOMAIN v

\* ToBoolean, as used by || and && and if
Truthy(v) ==
    CASE v.type = "string" -> v.str # ""
      [] v.type = "undefined" -> FALSE
      [] v.type = "null" -> FALSE
      [] OTHER -> TRUE

\* a || b
Or(a, b) == IF Truthy(a) THEN a ELSE b

\* ToJSString, as applied by template literal interpolation
ToJSString(v) ==
    CASE v.type = "string" -> v.str
      [] v.type = "undefined" -> "undefined"
      [] v.type = "null" -> "null"
      [] v.type = "function" -> "function " \o v.name \o "() { [native code] }"
      [] OTHER -> "[object Object]"

\* Properties every object literal inherits from Object.prototype
ObjectPrototype ==
    "constructor" :> Builtin("Object") @@
    "toString" :> Builtin("toString") @@
    "__proto__" :> ProtoObject

\* obj[key] for an object literal: own property, else inherited, else undefined
Get(obj, key) ==
    IF key \in DOMAIN obj THEN Str(obj[key])
    ELSE IF key \in DOMAIN ObjectPrototype THEN ObjectPrototype[key]
    ELSE Undefined

WhiteSpace == {" ", "\n", "\t"}

\* the first position from i on that holds no white space (Len(s) + 1 if none)
RECURSIVE skipStart(_, _)
skipStart(s, i) ==
    IF i <= Len(s) /\ SubSeq(s, i, i) \in WhiteSpace
    THEN skipStart(s, i + 1)
    ELSE i

\* the last position up to n that holds no white space (0 if none)
RECURSIVE skipEnd(_, _)
skipEnd(s, n) ==
    IF n >= 1 /\ SubSeq(s, n, n) \in WhiteSpace
    THEN skipEnd(s, n - 1)
    ELSE n

\* String.prototype.trimStart
trimStart(s) == SubSeq(s, skipStart(s, 1), Len(s))

\* String.prototype.trimEnd
trimEnd(s) == SubSeq(s, 1, skipEnd(s, Len(s)))

\* String.prototype.trim
trim(s) == trimEnd(trimStart(s))

---------------------------------------------------------------------------
(* Configuration tables *)

\* the object literal EMOJI_MAP is initialised with
EmojiMapLiteral ==
    "New Customer Onboarding" :> "(new)" @@
    "Integration Issue" :> "(tools)" @@
    "Feature Requests" :> "(sparkles)" @@
    "Training Requests" :> "(books)" @@
    "Account/Billing Question" :> "(receipt)" @@
    "Something else?" :> "(question)"

\* a read of the constant binding EMOJI_MAP
EMOJI_MAP == tables.EMOJI_MAP

\* server.js: request type -> section name, as initialised
SectionMapLiteral ==
    "New Customer Onboarding" :> "(new) New Customer Onboarding" @@
    "Integration Issue" :> "(tools) Integration Issue" @@
    "Feature Requests" :> "(sparkles) Feature Requests" @@
    "Training Requests" :> "(books) Training Requests" @@
    "Account/Billing Question" :> "(receipt) Account/Billing Question" @@
    "Something else?" :> "(question) Something Else?"

SECTION_MAP == tables.SECTION_MAP

\* the gid table with the gids of two neighbouring sections exchanged
SECTION_MAP_GID_Swapped ==
    "New Customer Onboarding" :> "1211512835831277" @@
    "Integration Issue" :> "1211512835831283" @@
    "Feature Requests" :> "1211512835831271" @@
    "Training Requests" :> "1211512835831274" @@
    "Account/Billing Question" :> "1211512835831280" @@
    "Something else?" :> "1211512835831288"

\* part_000: request type -> section gid, as initialised
SectionMapGidLiteral ==
    "New Customer Onboarding" :> "1211512835831277" @@
    "Integration Issue" :> "1211512835831283" @@
    "Feature Requests" :> "1211512835831274" @@
    "Training Requests" :> "1211512835831271" @@
    "Account/Billing Question" :> "1211512835831280" @@
    "Something else?" :> "1211512835831288"

SECTION_MAP_GID == tables.SECTION_MAP_GID

\* priorityMap with a priority value of its own for Urgent
priorityMapUrgent ==
    "Low" :> "low" @@
    "Medium" :> "medium" @@
    "High" :> "high" @@
    "Urgent" :> "urgent"

\* the object literal createAsanaTask builds priorityMap from
PriorityMapLiteral ==
    "Low" :> "low" @@
    "Medium" :> "medium" @@
    "High" :> "high" @@
    "Urgent" :> "high"

priorityMap == tables.priorityMap

\* process.env.ASANA_PROJECT_ID
ASANA_PROJECT_ID == "PROJECT_ID"

---------------------------------------------------------------------------
(* parseFormData and the payload construction of createAsanaTask *)

\* a || b replaced by a ?? b: only undefined and null take the default
Nullish(a, b) == IF a.type \in {"undefined", "null"} THEN b ELSE a

\* parseFormData taking the default priority only when none was sent
\* (body.priority !== undefined ? body.priority : 'Medium')
parseFormDataPrioritySent(body) ==
    [ name |->
        ToJSString(Or(Str(trim(ToJSString(Or(body.firstName, Str(""))) \o " " \o
                             ToJSString(Or(body.lastName, Str(""))))),
                    Str("Unnamed Request"))),
      email |-> ToJSString(Or(body.email, Str("no-email@provided.com"))),
      requestType |-> ToJSString(Or(body.requestType, Str("General"))),
      description |-> ToJSString(Or(body.description, Str("No description provided"))),
      priority |-> ToJSString(IF body.priority = Undefined THEN Str("Medium")
                              ELSE body.priority) ]

\* parseFormData with ?? in place of ||
parseFormDataNullish(body) ==
    [ name |->
        ToJSString(Nullish(Str(trim(ToJSString(Nullish(body.firstName, Str(""))) \o " " \o
                                  ToJSString(Nullish(body.lastName, Str(""))))),
                         Str("Unnamed Request"))),
      email |-> ToJSString(Nullish(body.email, Str("no-email@provided.com"))),
      requestType |-> ToJSString(Nullish(body.requestType, Str("General"))),
      description |-> ToJSString(Nullish(body.description, Str("No description provided"))),
      priority |-> ToJSString(Nullish(body.priority, Str("Medium"))) ]

\* parseFormData without the .trim() of the joined name
parseFormDataNoTrim(body) ==
    [ name |->
        ToJSString(Or(Str(ToJSString(Or(body.firstName, Str(""))) \o " " \o
                          ToJSString(Or(body.lastName, Str("")))),
                      Str("Unnamed Request"))),
      email |-> ToJSString(Or(body.email, Str("no-email@provided.com"))),
      requestType |-> ToJSString(Or(body.requestType, Str("General"))),
      description |-> ToJSString(Or(body.description, Str("No description provided"))),
      priority |-> ToJSString(Or(body.priority, Str("Medium"))) ]

\* parseFormData validating the required fields the README lists
parseFormDataValidating(body) ==
    IF \E f \in {"firstName", "lastName", "email", "requestType", "description"} :
           ~Truthy(body[f])
    THEN Throw("Missing required fields")
    ELSE [ name |-> trim(body.firstName.str \o " " \o body.lastName.str),
           email |-> body.email.str,
           requestType |-> body.requestType.str,
           description |-> body.description.str,
           priority |-> ToJSString(Or(body.priority, Str("Medium"))) ]

parseFormData(body) ==
    [ name |->
        ToJSString(Or(Str(trim(ToJSString(Or(body.firstName, Str(""))) \o " " \o
                             ToJSString(Or(body.lastName, Str(""))))),
                    Str("Unnamed Request"))),
      email |-> ToJSString(Or(body.email, Str("no-email@provided.com"))),
      requestType |-> ToJSString(Or(body.requestType, Str("General"))),
      description |-> ToJSString(Or(body.description, Str("No description provided"))),
      priority |-> ToJSString(Or(body.priority, Str("Medium"))) ]

\* const emoji = EMOJI_MAP[formData.requestType] || EMOJI_MAP['Something else?']
emojiFor(formData) ==
    Or(Get(EMOJI_MAP, formData.requestType), Get(EMOJI_MAP, "Something else?"))

\* the title format of the README's workflow section
taskNameReadme(emoji, formData) ==
    "[" \o formData.requestType \o "] - " \o formData.name

taskName(emoji, formData) ==
    ToJSString(emoji) \o " [" \o formData.requestType \o "] " \o formData.name

\* the notes template without its .trim()
taskNotesUntrimmed(formData) ==
    "\nRequest from: " \o formData.email \o
    "\nType: " \o formData.requestType \o
    "\nPriority: " \o formData.priority \o
    "\n\nDescription:\n" \o formData.description \o
    "\n            "

taskNotes(formData) ==
    trim("\nRequest from: " \o formData.email \o
         "\nType: " \o formData.requestType \o
         "\nPriority: " \o formData.priority \o
         "\n\nDescription:\n" \o formData.description \o
         "\n            ")

taskPriority(formData) ==
    Or(Get(priorityMap, formData.priority), Str("medium"))

\* the payload with the title numbered by the tasks created so far
taskDataNumbered(formData, emoji, sectionId) ==
    LET base == [ name |-> taskName(emoji, formData) \o " #" \o ToString(Len(tasks) + 1),
                  notes |-> taskNotes(formData),
                  projects |-> <<ASANA_PROJECT_ID>>,
                  priority |-> taskPriority(formData) ]
    IN  IF Truthy(sectionId)
        THEN base @@ [ memberships |->
                         << [project |-> ASANA_PROJECT_ID, section |-> sectionId] >> ]
        ELSE base

\* the object literal taskData.data
taskData(formData, emoji, sectionId) ==
    LET base == [ name |-> taskName(emoji, formData),
                  notes |-> taskNotes(formData),
                  projects |-> <<ASANA_PROJECT_ID>>,
                  priority |-> taskPriority(formData) ]
    IN  IF Truthy(sectionId)
        THEN base @@ [ memberships |->
                         << [project |-> ASANA_PROJECT_ID, section |-> sectionId] >> ]
        ELSE base

\* sections.find((s) => s.name === sectionName), then .gid or null
RECURSIVE find(_, _)
find(list, sectionName) ==
    IF list = <<>> THEN Null
    ELSE IF Str(Head(list).name) = sectionName THEN Str(Head(list).gid)
    ELSE find(Tail(list), sectionName)

---------------------------------------------------------------------------
(* The tracker (Asana) as seen through its API *)

\* The project set up as the README says, with the gids part_000 records
ReadmeSections ==
    << [name |-> "(new) New Customer Onboarding", gid |-> "1211512835831277"],
       [name |-> "(tools) Integration Issue", gid |-> "1211512835831283"],
       [name |-> "(sparkles) Feature Requests", gid |-> "1211512835831274"],
       [name |-> "(books) Training Requests", gid |-> "1211512835831271"],
       [name |-> "(receipt) Account/Billing Question", gid |-> "1211512835831280"],
       [name |-> "(question) Something Else?", gid |-> "1211512835831288"] >>

\* A project whose sections were named differently, or never created
OtherSections ==
    << [name |-> "Untitled section", gid |-> "1211512835831290"],
       [name |-> "(sparkles) Feature Request", gid |-> "1211512835831291"],
       [name |-> "(question) Something Else?", gid |-> "1211512835831292"] >>

SectionListings == {ReadmeSections, OtherSections}

\* What axios.post throws: with a response when the tracker answered with an
\* error status (apiMessage is response.data.errors[0].message), without
\* one when no answer arrived
AsanaErrors ==
    { [ response |-> TRUE, apiMessage |-> Str("Not Authorized"),
        message |-> "Request failed with status code 401" ],
      [ response |-> FALSE, apiMessage |-> Undefined,
        message |-> "connect ECONNREFUSED" ] }

\* error.response?.data?.errors?.[0]?.message || error.message
errorMessage(error) == ToJSString(Or(error.apiMessage, Str(error.message)))

---------------------------------------------------------------------------
(* Webhook bodies *)

FirstNames == {Undefined, Str(" "), Str("Sarah")}
LastNames == {Undefined, Str(""), Str("Johnson ")}
Emails == {Undefined, Str(""), Str("sarah.johnson@example.com")}
RequestTypes ==
    {Undefined, Str(""), Str("Feature Requests"), Str("Something else?"),
     Str("Feature Request"), Str("constructor")}
Descriptions ==
    {Undefined, Str(""), Str("Add dark mode to dashboard"), Str("See below: \n")}
Priorities ==
    {Undefined, Str(""), Str("Low"), Str("High"), Str("Urgent"),
     Str("urgent"), Str("constructor")}

Bodies ==
    [ firstName : FirstNames, lastName : LastNames, email : Emails,
      requestType : RequestTypes, description : Descriptions,
      priority : Priorities ]

\* the request body of the README's API documentation
SarahBody ==
    [ firstName |-> Str("Sarah"), lastName |-> Str("Johnson"),
      email |-> Str("sarah.johnson@example.com"),
      requestType |-> Str("Feature Requests"),
      description |-> Str("Add dark mode to dashboard"),
      priority |-> Str("High") ]

\* a small family of bodies for runs with several requests in flight
FewBodies ==
    { [SarahBody EXCEPT !.priority = p, !.requestType = t, !.firstName = f] :
        p \in {Str("High"), Str("Urgent"), Undefined},
        t \in {Str("Feature Requests"), Undefined},
        f \in {Str("Sarah"), Undefined} }

---------------------------------------------------------------------------
(* State *)

Variants == {"server.js", "part_000"}

\* gets and posts count the calls the request has issued to the tracker
\* (axios.get of the listing, axios.post of the task); listed is what
\* getProjectSections returned; error is what axios.post threw; sent counts
\* the responses written to res
Idle ==
    [ pc |-> "idle", body |-> Undefined, formData |-> Undefined,
      emoji |-> Undefined, sectionName |-> Undefined, sectionId |-> Null,
      taskData |-> Undefined, res |-> Undefined,
      gets |-> 0, posts |-> 0, listed |-> <<>>,
      error |-> Undefined, sent |-> 0 ]

\* res.status(500).json({ success: false, error: error.message })
Res500(message) ==
    [ status |-> 500, json |-> [success |-> FALSE, error |-> message] ]

\* res.status(200).json({ success: true, message: ..., taskId: ... })
Res200(gid) ==
    [ status |-> 200,
      json |-> [ success |-> TRUE, message |-> "Task created successfully!",
                 taskId |-> gid ] ]

\* the tables as the two server files initialise them; priorityMap is built
\* anew, from the same literal, by every call of createAsanaTask
StartupTables ==
    [ EMOJI_MAP |-> EmojiMapLiteral,
      SECTION_MAP |-> SectionMapLiteral,
      SECTION_MAP_GID |-> SectionMapGidLiteral,
      priorityMap |-> PriorityMapLiteral ]

\* no GET request has been served yet; served collects the paths answered
NoGet == [ pc |-> "idle", path |-> "", res |-> Undefined, served |-> {} ]

\* no script function is running.  runs counts the executions that ended,
\* sweeps the executions of processExistingRows that started and swept those
\* that ended; ran is the function run last, e the event it was given and
\* posted the calls of UrlFetchApp.fetch it has made, in order, each with
\* the sheet row it was made for and its payload
NoScript ==
    [ fn |-> "none", pc |-> "idle", i |-> 0, formData |-> Undefined,
      runs |-> 0, sweeps |-> 0, swept |-> 0,
      ran |-> "none", e |-> Undefined, posted |-> <<>> ]

InitWith(n) ==
    /\ variant \in Variants
    /\ sections \in SectionListings
    /\ req = [r \in 1..n |-> Idle]
    /\ tasks = <<>>
    /\ tables = StartupTables
    /\ get = NoGet
    /\ sheet = <<>>
    /\ script = NoScript

Init == InitWith(MaxRequests)

InitOne == InitWith(1)

---------------------------------------------------------------------------
(* app.post('/webhook'): from the request up to the first await *)

Webhook(r, body) ==
    /\ req[r].pc = "idle"
    /\ LET formData == parseFormData(body)
           emoji == emojiFor(formData)
           started == [Idle EXCEPT !.body = body, !.formData = formData,
                                   !.emoji = emoji]
       IN  IF Threw(formData)
           THEN \* caught by the handler's catch
                req' = [req EXCEPT ![r] =
                           [Idle EXCEPT !.pc = "done", !.body = body,
                                        !.res = Res500(formData.throw),
                                        !.sent = 1]]
           ELSE IF variant = "server.js"
           THEN LET sectionName == Get(SECTION_MAP, formData.requestType)
                IN  IF Truthy(sectionName)
                    THEN req' = [req EXCEPT ![r] =
                                   [started EXCEPT !.pc = "listing",
                                                   !.sectionName = sectionName,
                                                   !.gets = 1]]
                    ELSE req' = [req EXCEPT ![r] =
                                   [started EXCEPT !.pc = "posting",
                                                   !.sectionName = sectionName,
                                                   !.taskData = taskData(formData, emoji, Null),
                                                   !.posts = 1]]
           ELSE LET sectionId == Or(Get(SECTION_MAP_GID, formData.requestType), Null)
                IN  req' = [req EXCEPT ![r] =
                               [started EXCEPT !.pc = "posting",
                                               !.sectionId = sectionId,
                                               !.taskData = taskData(formData, emoji, sectionId),
                                               !.posts = 1]]
    /\ UNCHANGED <<variant, sections, tasks, tables>>

\* formData and emoji kept in module-level variables that every request
\* overwrites: the payload is built from whichever request is also in flight
SectionsResumeShared(r, list) ==
    /\ req[r].pc = "listing"
    /\ LET others == { q \in DOMAIN req : q # r /\ req[q].pc \in {"listing", "posting"} }
           q == IF others = {} THEN r ELSE CHOOSE q \in others : TRUE
           sectionId == find(list, req[r].sectionName)
       IN  req' = [req EXCEPT ![r].pc = "posting",
                              ![r].listed = list,
                              ![r].sectionId = sectionId,
                              ![r].taskData = taskData(req[q].formData, req[q].emoji, sectionId),
                              ![r].posts = @ + 1]
    /\ UNCHANGED <<variant, sections, tasks, tables>>

\* getSectionIdByName resumes with the listing (or [] when the call failed),
\* createAsanaTask builds the payload and issues the creation call
SectionsResume(r, list) ==
    /\ req[r].pc = "listing"
    /\ LET sectionId == find(list, req[r].sectionName)
       IN  req' = [req EXCEPT ![r].pc = "posting",
                              ![r].listed = list,
                              ![r].sectionId = sectionId,
                              ![r].taskData = taskData(req[r].formData, req[r].emoji, sectionId),
                              ![r].posts = @ + 1]
    /\ UNCHANGED <<variant, sections, tasks, tables>>

\* a handler for which a failed listing call ends the request
SectionsFailedFatal(r) ==
    /\ req[r].pc = "listing"
    /\ req' = [req EXCEPT ![r].pc = "done",
                           ![r].res = Res500("Request failed with status code 500"),
                           ![r].sent = @ + 1]
    /\ UNCHANGED <<variant, sections, tasks, tables>>

\* axios.get answered
SectionsReturned(r) == SectionsResume(r, sections)

\* axios.get threw: getProjectSections catches and returns []
SectionsFailed(r) == SectionsResume(r, <<>>)

\* axios.post answered: the tracker created the task; the handler answers 200
TaskCreated(r) ==
    /\ req[r].pc = "posting"
    /\ LET gid == ToString(Len(tasks) + 1)
       IN  /\ tasks' = Append(tasks, [gid |-> gid, data |-> req[r].taskData, by |-> r])
           /\ req' = [req EXCEPT ![r].pc = "done", ![r].res = Res200(gid),
                                  ![r].sent = @ + 1]
    /\ UNCHANGED <<variant, sections, tables>>

\* a handler that swallows the error of axios.post and reports success
TaskFailedSilently(r, error) ==
    /\ req[r].pc = "posting"
    /\ req' = [req EXCEPT ![r].pc = "done",
                           ![r].error = error,
                           ![r].res = Res200("0"),
                           ![r].sent = @ + 1]
    /\ UNCHANGED <<variant, sections, tasks, tables>>

\* a createAsanaTask that issues the call again after a failure
TaskFailedRetrying(r, error) ==
    /\ req[r].pc = "posting"
    /\ IF req[r].posts < 2
       THEN req' = [req EXCEPT ![r].posts = @ + 1]
       ELSE req' = [req EXCEPT ![r].pc = "done",
                               ![r].error = error,
                               ![r].res = Res500("Failed to create Asana task: "
                                                 \o errorMessage(error)),
                               ![r].sent = @ + 1]
    /\ UNCHANGED <<variant, sections, tasks, tables>>

\* axios.post threw: createAsanaTask rethrows, the handler answers 500
TaskFailed(r, error) ==
    /\ req[r].pc = "posting"
    /\ req' = [req EXCEPT ![r].pc = "done",
                           ![r].error = error,
                           ![r].res = Res500("Failed to create Asana task: "
                                             \o errorMessage(error)),
                           ![r].sent = @ + 1]
    /\ UNCHANGED <<variant, sections, tasks, tables>>

\* a webhook request arrives with one of the bodies of the given family
Receive(bodies) ==
    /\ \E r \in DOMAIN req : \E body \in bodies : Webhook(r, body)
    /\ UNCHANGED <<get, sheet, script>>

ListingAnswered ==
    /\ \E r \in DOMAIN req : SectionsReturned(r)
    /\ UNCHANGED <<get, sheet, script>>

ListingFailed ==
    /\ \E r \in DOMAIN req : SectionsFailed(r)
    /\ UNCHANGED <<get, sheet, script>>

CreationAnswered ==
    /\ \E r \in DOMAIN req : TaskCreated(r)
    /\ UNCHANGED <<get, sheet, script>>

CreationFailed ==
    /\ \E r \in DOMAIN req : \E error \in AsanaErrors : TaskFailed(r, error)
    /\ UNCHANGED <<get, sheet, script>>

ReceiveFew == Receive(FewBodies)

Next ==
    \/ ReceiveFew
    \/ ListingAnswered
    \/ ListingFailed
    \/ CreationAnswered
    \/ CreationFailed

Spec == Init /\ [][Next]_vars

\* one request, every combination of present, absent and empty fields
ReceiveAny == Receive(Bodies)

NextOne ==
    \/ ReceiveAny
    \/ ListingAnswered
    \/ ListingFailed
    \/ CreationAnswered
    \/ CreationFailed

SpecOne == InitOne /\ [][NextOne]_vars

\* one request with one of the few bodies, in runs in which every call to
\* the tracker is answered or fails and the continuation waiting for it
\* then runs
FairSpecOne ==
    /\ InitOne
    /\ [][Next]_vars
    /\ WF_vars(ListingAnswered \/ ListingFailed)
    /\ WF_vars(CreationAnswered \/ CreationFailed)

---------------------------------------------------------------------------
(* The GET endpoints.  One GET request is served at a time; a new one may  *)
(* arrive once the previous one was answered.                              *)

\* app.get('/'): res.send of the banner (its arrow and rocket in ASCII)
Root ==
    /\ get.pc \in {"idle", "done"}
    /\ get' = [ pc |-> "done", path |-> "/",
                res |-> [ status |-> 200,
                          text |-> "Google Forms -> Asana Integration Server is running! (rocket)" ],
                served |-> get.served \cup {"/"} ]
    /\ UNCHANGED <<variant, sections, req, tasks, tables, sheet, script>>

\* app.get('/debug-sections') up to its await of getProjectSections
DebugSections ==
    /\ get.pc \in {"idle", "done"}
    /\ get' = [get EXCEPT !.pc = "listing", !.path = "/debug-sections",
                          !.res = Undefined]
    /\ UNCHANGED <<variant, sections, req, tasks, tables, sheet, script>>

\* res.json({ count: sections.length, sections: sections.map(...) })
DebugSectionsResume(list) ==
    /\ get.pc = "listing"
    /\ get' = [get EXCEPT !.pc = "done",
                          !.res = [ status |-> 200,
                                    json |-> [ count |-> Len(list),
                                               sections |-> [ i \in DOMAIN list |->
                                                   [ name |-> list[i].name,
                                                     gid |-> list[i].gid ] ] ] ],
                          !.served = @ \cup {"/debug-sections"}]
    /\ UNCHANGED <<variant, sections, req, tasks, tables, sheet, script>>

\* a debug endpoint that stores the first section it listed as the section
\* of the fallback category
DebugSectionsReturnedCaching ==
    /\ get.pc = "listing"
    /\ get' = [get EXCEPT !.pc = "done",
                          !.res = [ status |-> 200,
                                    json |-> [ count |-> Len(sections),
                                               sections |-> sections ] ],
                          !.served = @ \cup {"/debug-sections"}]
    /\ tables' = [tables EXCEPT !.SECTION_MAP["Something else?"] =
                      sections[1].name]
    /\ UNCHANGED <<variant, sections, req, tasks, sheet, script>>

\* the listing call of /debug-sections answered
DebugSectionsReturned == DebugSectionsResume(sections)

\* the listing call failed: getProjectSections returned []
DebugSectionsFailed == DebugSectionsResume(<<>>)

\* one webhook request and any sequence of GET requests
NextEndpoints ==
    \/ ReceiveFew
    \/ ListingAnswered
    \/ ListingFailed
    \/ CreationAnswered
    \/ CreationFailed
    \/ Root
    \/ DebugSections
    \/ DebugSectionsReturned
    \/ DebugSectionsFailed

SpecEndpoints == InitOne /\ [][NextEndpoints]_vars

---------------------------------------------------------------------------
(* The Apps Script side: trigger.gs, the response sheet and the form.      *)
(* Time stamps are whole numbers around the cutoff of processExistingRows. *)

\* new Date('9/30/2025 15:28:08')
Cutoff == 2

Timestamps == {Cutoff - 1, Cutoff, Cutoff + 1}

\* e.namedValues of a complete submission: question title -> array of answers
SarahEvent ==
    "First Name" :> <<"Sarah">> @@
    "Last Name" :> <<"Johnson">> @@
    "Email" :> <<"sarah.johnson@example.com">> @@
    "Request Type" :> <<"Feature Requests">> @@
    "Request Description" :> <<"Add dark mode to dashboard">> @@
    "Priority" :> <<"High">>

\* a submission with an unanswered question and one the form does not have
SparseEvent ==
    "First Name" :> <<"">> @@
    "Last Name" :> <<"Johnson">> @@
    "Email" :> <<"sarah.johnson@example.com">> @@
    "Request Type" :> <<"Training Requests">> @@
    "Request Description" :> <<"Add dark mode to dashboard">>

\* a submission in which no question was answered
BlankEvent ==
    "First Name" :> <<"">> @@
    "Last Name" :> <<"">> @@
    "Email" :> <<"">> @@
    "Request Type" :> <<"">> @@
    "Request Description" :> <<"">> @@
    "Priority" :> <<"">>

Events == {SarahEvent, SparseEvent, BlankEvent}

\* the lookup without its guard: a missing title gives undefined
namedValueUnguarded(e, title) ==
    IF title \in DOMAIN e /\ Len(e[title]) > 0 THEN Str(e[title][1]) ELSE Undefined

\* e.namedValues[title] ? e.namedValues[title][0] : ''
namedValue(e, title) ==
    IF title \in DOMAIN e
    THEN IF Len(e[title]) > 0 THEN Str(e[title][1]) ELSE Undefined
    ELSE Str("")

\* the formData object onFormSubmit builds from the event
onFormSubmitData(e) ==
    [ firstName |-> namedValue(e, "First Name"),
      lastName |-> namedValue(e, "Last Name"),
      email |-> namedValue(e, "Email"),
      requestType |-> namedValue(e, "Request Type"),
      description |-> namedValue(e, "Request Description"),
      priority |-> namedValue(e, "Priority") ]

\* the formData object processExistingRows builds from columns B to G
rowData(row) ==
    [ firstName |-> Str(row.B), lastName |-> Str(row.C), email |-> Str(row.D),
      requestType |-> Str(row.E), description |-> Str(row.F),
      priority |-> Str(row.G) ]

\* JSON.stringify(formData) parsed by bodyParser.json(): strings arrive as
\* they are, a property that is undefined is left out
JSONBody(formData) ==
    [ f \in DOMAIN formData |->
        IF formData[f].type = "string" THEN formData[f] ELSE Undefined ]

\* the cell the form writes for a question: its answer, empty if none
cell(e, title) ==
    IF title \in DOMAIN e /\ Len(e[title]) > 0 THEN e[title][1] ELSE ""

\* the row the form appends for a submission at time t.  sent counts the
\* requests sent for the row, created the 200 responses received for it;
\* failed says that its latest call failed and failedSweep how many
\* executions of processExistingRows had started by then
formRow(e, t) ==
    [ A |-> t,
      B |-> cell(e, "First Name"), C |-> cell(e, "Last Name"),
      D |-> cell(e, "Email"), E |-> cell(e, "Request Type"),
      F |-> cell(e, "Request Description"), G |-> cell(e, "Priority"),
      sent |-> 0, created |-> 0, failed |-> FALSE, failedSweep |-> 0 ]

\* sheets filled before the script was installed: rows in order of time
RECURSIVE SheetsOfLength(_)
SheetsOfLength(n) ==
    IF n = 0 THEN { <<>> }
    ELSE { Append(sh, formRow(SarahEvent, t)) :
             sh \in SheetsOfLength(n - 1), t \in Timestamps }

ExistingSheets ==
    { sh \in UNION { SheetsOfLength(n) : n \in 0..(MaxRows - 1) } :
        \A i \in 1..(Len(sh) - 1) : sh[i].A <= sh[i + 1].A }

\* the script's execution ends
Finished(swept) ==
    [ script EXCEPT !.fn = "none", !.pc = "idle", !.i = 0,
                    !.formData = Undefined, !.runs = @ + 1,
                    !.swept = @ + swept ]

\* a submission of the form: the row is appended and the trigger runs
\* onFormSubmit(e) up to its call of UrlFetchApp.fetch
FormSubmitted(e, t) ==
    /\ script.fn = "none"
    /\ script.runs < MaxRuns
    /\ Len(sheet) < MaxRows
    /\ sheet # <<>> => sheet[Len(sheet)].A <= t
    /\ sheet' = Append(sheet, formRow(e, t))
    /\ script' = [ script EXCEPT !.fn = "onFormSubmit", !.pc = "fetch",
                                 !.i = Len(sheet) + 2,
                                 !.formData = onFormSubmitData(e),
                                 !.ran = "onFormSubmit", !.e = e,
                                 !.posted = <<>> ]
    /\ UNCHANGED <<variant, sections, req, tasks, tables, get>>

\* onFormSubmit run without an event (from the editor): logs and returns
OnFormSubmitWithoutEvent ==
    /\ script.fn = "none"
    /\ script.runs < MaxRuns
    /\ script' = [ Finished(0) EXCEPT !.ran = "onFormSubmit", !.e = Undefined,
                                      !.posted = <<>> ]
    /\ UNCHANGED <<variant, sections, req, tasks, tables, get, sheet>>

\* processExistingRows is run: for (var i = 2; ...
ProcessExistingRows ==
    /\ script.fn = "none"
    /\ script.runs < MaxRuns
    /\ script' = [ script EXCEPT !.fn = "processExistingRows", !.pc = "loop",
                                 !.i = 2, !.sweeps = @ + 1,
                                 !.ran = "processExistingRows", !.e = Undefined,
                                 !.posted = <<>> ]
    /\ UNCHANGED <<variant, sections, req, tasks, tables, get, sheet>>

\* the loop skipping only the rows after the cutoff (> for >=)
LoopSkippingAfterCutoff ==
    /\ script.pc = "loop"
    /\ LET lastRow == Len(sheet) + 1
           row == sheet[script.i - 1]
       IN  IF ~(script.i <= lastRow)
           THEN script' = Finished(1)
           ELSE IF row.A > Cutoff
           THEN script' = [script EXCEPT !.i = @ + 1]
           ELSE script' = [script EXCEPT !.pc = "fetch",
                                         !.formData = rowData(row)]
    /\ UNCHANGED <<variant, sections, req, tasks, tables, get, sheet>>

\* one turn of the loop up to the fetch: past the last row the function
\* ends; a row at or after the cutoff is skipped
Loop ==
    /\ script.pc = "loop"
    /\ LET lastRow == Len(sheet) + 1
           row == sheet[script.i - 1]
       IN  IF ~(script.i <= lastRow)
           THEN script' = Finished(1)
           ELSE IF row.A >= Cutoff
           THEN script' = [script EXCEPT !.i = @ + 1]
           ELSE script' = [script EXCEPT !.pc = "fetch",
                                         !.formData = rowData(row)]
    /\ UNCHANGED <<variant, sections, req, tasks, tables, get, sheet>>

\* what follows the fetch: onFormSubmit ends, the loop goes to the next row
AfterFetch ==
    IF script.fn = "onFormSubmit" THEN Finished(0)
    ELSE [script EXCEPT !.pc = "loop", !.i = @ + 1, !.formData = Undefined]

\* UrlFetchApp.fetch(url, options) is called for the row at hand
Posting ==
    [ script EXCEPT !.posted =
        Append(@, [ i |-> script.i, payload |-> JSONBody(script.formData) ]) ]

\* UrlFetchApp.fetch sends the POST and the server receives it
Fetch ==
    /\ script.pc = "fetch"
    /\ Webhook(1, JSONBody(script.formData))
    /\ script' = [Posting EXCEPT !.pc = "waiting"]
    /\ sheet' = [sheet EXCEPT ![script.i - 1].sent = @ + 1]
    /\ UNCHANGED get

\* the exception of UrlFetchApp.fetch not caught inside the loop: it ends
\* the execution
FetchThrowsEndsRun ==
    /\ script.pc = "fetch"
    /\ script' = [ Finished(IF script.fn = "processExistingRows" THEN 1 ELSE 0)
                     EXCEPT !.posted = Posting.posted ]
    /\ sheet' = [sheet EXCEPT ![script.i - 1].failed = TRUE,
                              ![script.i - 1].failedSweep = script.sweeps]
    /\ UNCHANGED <<variant, sections, req, tasks, tables, get>>

\* UrlFetchApp.fetch throws (the server cannot be reached); the catch logs
FetchThrows ==
    /\ script.pc = "fetch"
    /\ script' = [AfterFetch EXCEPT !.posted = Posting.posted]
    /\ sheet' = [sheet EXCEPT ![script.i - 1].failed = TRUE,
                              ![script.i - 1].failedSweep = script.sweeps]
    /\ UNCHANGED <<variant, sections, req, tasks, tables, get>>

\* UrlFetchApp.fetch returns the server's response, whatever its status
\* (muteHttpExceptions); the script logs it and goes on
FetchReturns ==
    /\ script.pc = "waiting"
    /\ req[1].pc = "done"
    /\ script' = AfterFetch
    /\ sheet' = [sheet EXCEPT ![script.i - 1] =
                    IF req[1].res.status = 200
                    THEN [@ EXCEPT !.created = @ + 1, !.failed = FALSE]
                    ELSE [@ EXCEPT !.failed = TRUE,
                                   !.failedSweep = script.sweeps]]
    /\ req' = [req EXCEPT ![1] = Idle]
    /\ UNCHANGED <<variant, sections, tasks, tables, get>>

Submission == \E e \in Events : \E t \in Timestamps : FormSubmitted(e, t)

InitTrigger ==
    /\ variant \in Variants
    /\ sections = ReadmeSections
    /\ req = [r \in 1..1 |-> Idle]
    /\ tasks = <<>>
    /\ tables = StartupTables
    /\ get = NoGet
    /\ sheet \in ExistingSheets
    /\ script = NoScript

\* the script, the server it posts to and the tracker
NextTrigger ==
    \/ Submission
    \/ OnFormSubmitWithoutEvent
    \/ ProcessExistingRows
    \/ Loop
    \/ Fetch
    \/ FetchThrows
    \/ FetchReturns
    \/ ListingAnswered
    \/ ListingFailed
    \/ CreationAnswered
    \/ CreationFailed

SpecTrigger == InitTrigger /\ [][NextTrigger]_vars

\* runs in which the script goes on step by step, every fetch returns or
\* throws and every call to the tracker is answered or fails.  A call of
\* UrlFetchApp.fetch that is due does not stay due for ever: it is sent
\* (Fetch, which ends FetchThrows being possible) or it throws
FairSpecTrigger ==
    /\ InitTrigger
    /\ [][NextTrigger]_vars
    /\ WF_vars(Loop)
    /\ WF_vars(FetchThrows)
    /\ WF_vars(FetchReturns)
    /\ WF_vars(ListingAnswered \/ ListingFailed)
    /\ WF_vars(CreationAnswered \/ CreationFailed)

TypeOK ==
    /\ variant \in Variants
    /\ sections \in SectionListings
    /\ \A r \in DOMAIN req : req[r].pc \in {"idle", "listing", "posting", "done"}
    /\ \A i \in DOMAIN tasks : tasks[i].by \in DOMAIN req
    /\ get.pc \in {"idle", "listing", "done"}
    /\ Len(sheet) <= MaxRows
    /\ script.fn \in {"none", "onFormSubmit", "processExistingRows"}
    /\ script.pc \in {"idle", "loop", "fetch", "waiting"}

---------------------------------------------------------------------------
(* Vocabulary of the properties *)

\* the field was sent and is not the empty string
Present(v) == v.type = "string" /\ v.str # ""

\* the handler has parsed the body of request r
Parsed(r) == req[r].pc # "idle" /\ "name" \in DOMAIN req[r].formData

\* createAsanaTask has built the payload of request r
Composed(r) == "name" \in DOMAIN req[r].taskData

HasPrefix(s, p) == Len(s) >= Len(p) /\ SubSeq(s, 1, Len(p)) = p

HasSuffix(s, p) == Len(s) >= Len(p) /\ SubSeq(s, Len(s) - Len(p) + 1, Len(s)) = p

NoBody ==
    [ firstName |-> Undefined, lastName |-> Undefined, email |-> Undefined,
      requestType |-> Undefined, description |-> Undefined,
      priority |-> Undefined ]

---------------------------------------------------------------------------
---------------------------------------------------------------------------
(* C2: parseFormData gives every absent or empty field its default and     *)
(* leaves every present non-empty field as sent; the name is the           *)
(* placeholder when first and last name are both absent.                   *)
DefaultOf ==
    [ email |-> "no-email@provided.com", requestType |-> "General",
      description |-> "No description provided", priority |-> "Medium" ]

C2_DefaultsForAbsentFields ==
    \A r \in DOMAIN req :
        Parsed(r) =>
            /\ \A f \in DOMAIN DefaultOf :
                   req[r].formData[f] =
                       IF Present(req[r].body[f]) THEN req[r].body[f].str
                       ELSE DefaultOf[f]
            /\ (~Present(req[r].body.firstName) /\ ~Present(req[r].body.lastName)) =>
                   req[r].formData.name = "Unnamed Request"

\* one request with an absent field, an empty field and a field kept as sent
C2_Witness ==
    \E r \in DOMAIN req :
        /\ Parsed(r)
        /\ req[r].body.email = Undefined
        /\ req[r].body.requestType = Str("")
        /\ Present(req[r].body.description)
        /\ req[r].body.firstName = Undefined
        /\ req[r].body.lastName = Str("")

---------------------------------------------------------------------------
(* C3: a category that is not one of the six keys of the mapping gets the  *)
(* marker of 'Something else?' and no section id, and its creation call    *)
(* is still issued; a category that is a key gets its own marker and the   *)
(* section its table entry names (in server.js: the listed section of      *)
(* that name).                                                             *)
C3_UnmappedCategoryFallsBack ==
    \A r \in DOMAIN req :
        Composed(r) =>
            LET category == req[r].formData.requestType
            IN  IF category \in DOMAIN EMOJI_MAP
                THEN /\ req[r].emoji = Str(EMOJI_MAP[category])
                     /\ req[r].sectionId =
                            IF variant = "server.js"
                            THEN find(req[r].listed, Str(SECTION_MAP[category]))
                            ELSE Str(SECTION_MAP_GID[category])
                ELSE /\ req[r].emoji = Str(EMOJI_MAP["Something else?"])
                     /\ req[r].sectionId = Null
                     /\ "memberships" \notin DOMAIN req[r].taskData
                     /\ req[r].posts = 1

---------------------------------------------------------------------------
---------------------------------------------------------------------------
(* C5: the full name is first and last name joined by one space and        *)
(* trimmed: it never starts or ends with whitespace; when only the first   *)
(* name is given it is that name trimmed; when both are absent, empty or   *)
(* whitespace-only it is 'Unnamed Request', and the title ends with it.    *)
StrOf(v) == IF Present(v) THEN v.str ELSE ""

Blank(v) == trim(StrOf(v)) = ""

NoEdgeWhiteSpace(s) ==
    /\ s # ""
    /\ SubSeq(s, 1, 1) \notin WhiteSpace
    /\ SubSeq(s, Len(s), Len(s)) \notin WhiteSpace

C5_FullNameTrimmedOrPlaceholder ==
    \A r \in DOMAIN req :
        Parsed(r) =>
            LET first == req[r].body.firstName
                last == req[r].body.lastName
                name == req[r].formData.name
            IN  /\ NoEdgeWhiteSpace(name)
                /\ (Blank(first) /\ Blank(last)) =>
                       /\ name = "Unnamed Request"
                       /\ Composed(r) =>
                              HasSuffix(req[r].taskData.name, "] Unnamed Request")
                /\ ~(Blank(first) /\ Blank(last)) =>
                       name = trim(StrOf(first) \o " " \o StrOf(last))
                /\ (~Blank(first) /\ ~Present(last)) => name = trim(first.str)
                /\ (~Present(first) /\ ~Blank(last)) => name = trim(last.str)

\* a whitespace-only first name and an empty last name, payload built
C5_Witness ==
    \E r \in DOMAIN req :
        /\ Composed(r)
        /\ req[r].body.firstName = Str(" ")
        /\ req[r].body.lastName = Str("")
        /\ req[r].formData.name = "Unnamed Request"

---------------------------------------------------------------------------
(* C6: the body is the template with email, category, priority label as    *)
(* submitted and description, in that order, and has no leading or         *)
(* trailing whitespace (so whitespace ending the description is cut).      *)
C6_BodyTemplate ==
    \A r \in DOMAIN req :
        Composed(r) =>
            /\ NoEdgeWhiteSpace(req[r].taskData.notes)
            /\ req[r].taskData.notes =
                   "Request from: " \o req[r].formData.email \o "\n" \o
                   "Type: " \o req[r].formData.requestType \o "\n" \o
                   "Priority: " \o req[r].formData.priority \o "\n" \o
                   "\n" \o
                   "Description:" \o trimEnd("\n" \o req[r].formData.description)
            /\ Present(req[r].body.priority) =>
                   req[r].formData.priority = req[r].body.priority.str

\* a description ending in whitespace and a priority the map changes
C6_Witness ==
    \E r \in DOMAIN req :
        /\ Composed(r)
        /\ req[r].body.description = Str("See below: \n")
        /\ req[r].body.priority = Str("Urgent")
        /\ HasSuffix(req[r].taskData.notes, "Description:\nSee below:")

---------------------------------------------------------------------------
(* C7: the priority value is the map entry of the label (Low -> low,       *)
(* Medium -> medium, High -> high, Urgent -> high) and 'medium' for every  *)
(* other or absent label: always one of low, medium, high.                 *)
C7_PriorityValue ==
    \A r \in DOMAIN req :
        Composed(r) =>
            LET label == req[r].formData.priority
            IN  /\ req[r].taskData.priority =
                       Str(CASE label = "Low" -> "low"
                             [] label = "Medium" -> "medium"
                             [] label = "High" -> "high"
                             [] label = "Urgent" -> "high"
                             [] OTHER -> "medium")
                /\ ~Present(req[r].body.priority) =>
                       req[r].taskData.priority = Str("medium")
                /\ req[r].taskData.priority \in {Str("low"), Str("medium"), Str("high")}

---------------------------------------------------------------------------
(* C8: two submissions that differ only in priority, one 'Urgent' and one  *)
(* 'High', get the same priority value and the same title, and their       *)
(* bodies differ only in the label of the priority line.                   *)
UrgentTwin(r1, r2) ==
    /\ Composed(r1)
    /\ Composed(r2)
    /\ req[r1].body.priority = Str("Urgent")
    /\ req[r2].body.priority = Str("High")
    /\ req[r1].body = [req[r2].body EXCEPT !.priority = Str("Urgent")]

\* n1 and n2 are equal except that n1 reads Urgent where n2 reads High,
\* right after 'Priority: '
DifferInPriorityLine(n1, n2) ==
    \E k \in 1..Len(n1) :
        /\ k + 6 <= Len(n1)
        /\ k + 4 <= Len(n2)
        /\ HasSuffix(SubSeq(n1, 1, k), "\nPriority: ")
        /\ SubSeq(n1, 1, k) = SubSeq(n2, 1, k)
        /\ SubSeq(n1, k + 1, k + 6) = "Urgent"
        /\ SubSeq(n2, k + 1, k + 4) = "High"
        /\ SubSeq(n1, k + 7, Len(n1)) = SubSeq(n2, k + 5, Len(n2))

C8_UrgentEqualsHigh ==
    \A r1, r2 \in DOMAIN req :
        UrgentTwin(r1, r2) =>
            /\ req[r1].taskData.priority = req[r2].taskData.priority
            /\ req[r1].taskData.priority = Str("high")
            /\ req[r1].taskData.name = req[r2].taskData.name
            /\ DifferInPriorityLine(req[r1].taskData.notes, req[r2].taskData.notes)

\* an Urgent and a High submission, otherwise equal, both composed
C8_Witness ==
    \E r1, r2 \in DOMAIN req :
        /\ UrgentTwin(r1, r2)
        /\ req[r1].body.requestType = Str("Feature Requests")

---------------------------------------------------------------------------
(* C9, as stated: for the README's submission the title is                 *)
(* '(sparkles) [Feature Requests] Sarah Johnson', the priority value is    *)
(* 'high' and the task is placed in the project's Feature Requests         *)
(* section.                                                                *)
FeatureRequestsSection ==
    IF variant = "server.js"
    THEN "(sparkles) Feature Requests"
    ELSE "1211512835831274"

---------------------------------------------------------------------------
(* C10, as stated: two requests with the same submission have the same     *)
(* payload (title, body, project, section, priority value).                *)
C10_SameSubmissionSamePayload ==
    \A r1, r2 \in DOMAIN req :
        (Composed(r1) /\ Composed(r2) /\ req[r1].body = req[r2].body) =>
            req[r1].taskData = req[r2].taskData

(* C10, amended: two requests with the same submission have the same       *)
(* title, body, project and priority value, whatever happened before and   *)
(* whatever the tracker answered; the section is the same in part_000,     *)
(* and in server.js whenever the listing call returned the same list.      *)
C10_SameSubmissionSamePayloadAmended ==
    \A r1, r2 \in DOMAIN req :
        (Composed(r1) /\ Composed(r2) /\ req[r1].body = req[r2].body) =>
            /\ req[r1].taskData.name = req[r2].taskData.name
            /\ req[r1].taskData.notes = req[r2].taskData.notes
            /\ req[r1].taskData.projects = req[r2].taskData.projects
            /\ req[r1].taskData.priority = req[r2].taskData.priority
            /\ (variant = "part_000" \/ req[r1].listed = req[r2].listed) =>
                   req[r1].taskData = req[r2].taskData

\* the same submission composed twice, the second time after the first
\* request's task was created
C10_Witness ==
    \E r1, r2 \in DOMAIN req :
        /\ r1 # r2
        /\ req[r1].body = req[r2].body
        /\ req[r1].pc = "done"
        /\ req[r1].res.status = 200
        /\ req[r2].pc = "posting"
        /\ req[r1].taskData = req[r2].taskData
        /\ "memberships" \in DOMAIN req[r1].taskData

---------------------------------------------------------------------------
(* C11: every payload names the configured project; it carries a section   *)
(* membership (project plus section id) exactly when a section id was      *)
(* resolved for the category, and without one it is still placed in the    *)
(* project.                                                                *)
\* v is the gid of a section
IsSectionId(v) == v.type = "string" /\ v.str # ""

C11_MembershipIffSectionResolved ==
    \A r \in DOMAIN req :
        Composed(r) =>
            /\ req[r].taskData.projects = <<ASANA_PROJECT_ID>>
            /\ "memberships" \in DOMAIN req[r].taskData <=> IsSectionId(req[r].sectionId)
            /\ "memberships" \in DOMAIN req[r].taskData =>
                   req[r].taskData.memberships =
                       << [project |-> ASANA_PROJECT_ID, section |-> req[r].sectionId] >>

---------------------------------------------------------------------------
(* C12: a failed creation call is reported to the webhook caller so that   *)
(* a transport failure (no answer from the tracker) can be told from an    *)
(* application-level rejection (the tracker answered with an error): the   *)
(* two answers differ in their status or in a field other than the free    *)
(* text of the message.                                                    *)
CreationFailedFor(r) == req[r].pc = "done" /\ "message" \in DOMAIN req[r].error

C12_FailureKindsDistinguished ==
    \A r1, r2 \in DOMAIN req :
        ( /\ CreationFailedFor(r1)
          /\ CreationFailedFor(r2)
          /\ req[r1].error.response
          /\ ~req[r2].error.response ) =>
            \/ req[r1].res.status # req[r2].res.status
            \/ DOMAIN req[r1].res.json # DOMAIN req[r2].res.json
            \/ \E f \in DOMAIN req[r1].res.json \ {"error"} :
                   req[r1].res.json[f] # req[r2].res.json[f]

---------------------------------------------------------------------------
(* C13: every webhook request gets exactly one response: 200 with          *)
(* success=true and the id of the task its creation call created, or 500   *)
(* with success=false and an error message when the call failed; no        *)
(* response is written before the creation call has returned.              *)
TasksBy(r) == { i \in DOMAIN tasks : tasks[i].by = r }

C13_ResponseMatchesOutcome ==
    \A r \in DOMAIN req :
        /\ req[r].sent = (IF req[r].pc = "done" THEN 1 ELSE 0)
        /\ req[r].pc # "done" =>
               /\ req[r].res = Undefined
               /\ TasksBy(r) = {}
        /\ req[r].pc = "done" =>
               IF TasksBy(r) # {}
               THEN /\ Cardinality(TasksBy(r)) = 1
                    /\ req[r].res.status = 200
                    /\ req[r].res.json.success
                    /\ \A i \in TasksBy(r) : req[r].res.json.taskId = tasks[i].gid
               ELSE /\ req[r].res.status = 500
                    /\ ~req[r].res.json.success
                    /\ req[r].res.json.error # ""

---------------------------------------------------------------------------
(* C14: requests in flight together are independent: whatever the          *)
(* interleaving, each request's parsed data and payload come from its own  *)
(* body and its own listing answer, its response names the task its own    *)
(* call created, and every created task holds the payload of the request   *)
(* that created it.                                                        *)
OwnSectionId(r) ==
    LET category == parseFormData(req[r].body).requestType
    IN  IF variant = "server.js"
        THEN IF req[r].gets = 1 THEN find(req[r].listed, Get(SECTION_MAP, category))
             ELSE Null
        ELSE Or(Get(SECTION_MAP_GID, category), Null)

OwnPayload(r) ==
    taskData(parseFormData(req[r].body), emojiFor(parseFormData(req[r].body)),
             OwnSectionId(r))

C14_RequestsIndependent ==
    /\ \A r \in DOMAIN req :
           /\ Parsed(r) => req[r].formData = parseFormData(req[r].body)
           /\ Composed(r) => req[r].taskData = OwnPayload(r)
           /\ (req[r].pc = "done" /\ req[r].res.status = 200) =>
                  \E i \in DOMAIN tasks :
                      /\ tasks[i].gid = req[r].res.json.taskId
                      /\ tasks[i].by = r
                      /\ tasks[i].data = OwnPayload(r)
    /\ \A i, j \in DOMAIN tasks :
           /\ tasks[i].data = OwnPayload(tasks[i].by)
           /\ (i # j) => tasks[i].gid # tasks[j].gid /\ tasks[i].by # tasks[j].by

\* two different submissions in flight together, one composed while the
\* other waits for its listing
C14_Witness ==
    \E r1, r2 \in DOMAIN req :
        /\ req[r1].pc = "listing"
        /\ req[r2].pc = "posting"
        /\ req[r2].gets = 1
        /\ req[r1].body.firstName # req[r2].body.firstName
        /\ req[r1].body.priority # req[r2].body.priority

---------------------------------------------------------------------------
---------------------------------------------------------------------------
(* C17: a failure of the task-creation call is reported only after the     *)
(* call was issued again (up to 3 retries).                                *)
C17_RetriesBeforeReportingFailure ==
    \A r \in DOMAIN req : CreationFailedFor(r) => req[r].posts > 1

---------------------------------------------------------------------------
(* C20: in the name variant, when the listing call failed or lists no      *)
(* section whose name is the mapped name, the section id is null and the   *)
(* creation call is still issued, without memberships.                     *)
NoExactMatch(r) ==
    \A i \in DOMAIN req[r].listed : Str(req[r].listed[i].name) # req[r].sectionName

C20_UnresolvedSectionNotFatal ==
    \A r \in DOMAIN req :
        /\ (req[r].gets = 1 /\ req[r].pc # "listing" /\ NoExactMatch(r)) =>
               /\ req[r].sectionId = Null
               /\ req[r].posts = 1
               /\ Composed(r)
               /\ "memberships" \notin DOMAIN req[r].taskData
               /\ (req[r].pc = "done") =>
                      (TasksBy(r) # {} \/ CreationFailedFor(r))
        /\ (req[r].gets = 1 /\ req[r].pc = "done" /\ req[r].res.status = 500) =>
               CreationFailedFor(r)

\* the listing call failed and the task was created all the same
C20_Witness ==
    \E r \in DOMAIN req :
        /\ variant = "server.js"
        /\ req[r].gets = 1
        /\ req[r].listed = <<>>
        /\ req[r].pc = "done"
        /\ req[r].res.status = 200
        /\ \E i \in TasksBy(r) : "memberships" \notin DOMAIN tasks[i].data

\* the listing names the section differently and the task is created
\* without a section
C20_WitnessNoMatch ==
    \E r \in DOMAIN req :
        /\ req[r].gets = 1
        /\ req[r].listed = OtherSections
        /\ req[r].sectionName = Str("(sparkles) Feature Requests")
        /\ req[r].pc = "done"
        /\ req[r].res.status = 200

---------------------------------------------------------------------------
(* C15: the emoji table, the section table and the priority table hold     *)
(* their startup entries in every state, whatever requests were served on  *)
(* /webhook, /debug-sections and /.                                        *)
C15_TablesConstant == tables = StartupTables

\* every endpoint has been served, the webhook up to its response
C15_Witness ==
    /\ get.served = {"/", "/debug-sections"}
    /\ get.pc = "done"
    /\ req[1].pc = "done"
    /\ req[1].res.status = 200
    /\ tables.EMOJI_MAP["Feature Requests"] = "(sparkles)"

---------------------------------------------------------------------------
(* C18: no row of the sheet leads to more than one created task, whatever  *)
(* executions of onFormSubmit and processExistingRows take place.          *)
C18_RowCreatesAtMostOneTask ==
    \A i \in DOMAIN sheet : sheet[i].created <= 1

---------------------------------------------------------------------------
(* C19: a row whose latest call failed is sent again by a later run: no    *)
(* execution of processExistingRows that started after the failure ends    *)
(* with the row still in failure.                                          *)
C19_FailedRowSentAgain ==
    \A i \in DOMAIN sheet :
        sheet[i].failed => script.swept <= sheet[i].failedSweep

---------------------------------------------------------------------------
(* C21: in server.js a request issues the listing call exactly when its    *)
(* category is a key of SECTION_MAP, at most once, and has issued no       *)
(* creation call while the listing call is pending.                        *)
C21_ListingOnlyForMappedCategory ==
    \A r \in DOMAIN req :
        (variant = "server.js" /\ Parsed(r)) =>
            /\ req[r].gets <= 1
            /\ req[r].gets = 1 <=> req[r].formData.requestType \in DOMAIN SECTION_MAP
            /\ (req[r].pc = "listing") => req[r].posts = 0
            /\ (req[r].posts = 1 /\ req[r].gets = 1) => req[r].pc \in {"posting", "done"}

---------------------------------------------------------------------------
(* C22: for every request the payload of the deployed variant equals the   *)
(* payload the other variant builds for the same parsed submission, when   *)
(* the category is no key of the section tables, or when the listing       *)
(* gives, for every mapped section name, the gid part_000 stores.          *)

\* createAsanaTask of server.js, the listing call answered with list
createAsanaTaskByName(formData, list) ==
    LET sectionName == Get(SECTION_MAP, formData.requestType)
        sectionId == IF Truthy(sectionName) THEN find(list, sectionName) ELSE Null
    IN  taskData(formData, emojiFor(formData), sectionId)

\* createAsanaTask of part_000
createAsanaTaskByGid(formData) ==
    taskData(formData, emojiFor(formData),
             Or(Get(SECTION_MAP_GID, formData.requestType), Null))

ListingMatchesTable(list) ==
    \A k \in DOMAIN SECTION_MAP :
        find(list, Str(SECTION_MAP[k])) = Str(SECTION_MAP_GID[k])

C22_VariantsAgree ==
    \A r \in DOMAIN req :
        Composed(r) =>
            LET formData == req[r].formData
                list == IF variant = "server.js" THEN req[r].listed ELSE sections
            IN  (formData.requestType \notin DOMAIN SECTION_MAP \/ ListingMatchesTable(list)) =>
                    /\ req[r].taskData = createAsanaTaskByName(formData, list)
                    /\ req[r].taskData = createAsanaTaskByGid(formData)

---------------------------------------------------------------------------
(* C23: an execution of onFormSubmit without an event calls the webhook    *)
(* not at all; one with namedValues calls it exactly once, with a payload  *)
(* of the six fields, each the first value submitted under its question    *)
(* title, or the empty string when the event has no such title.            *)
Titles ==
    [ firstName |-> "First Name", lastName |-> "Last Name", email |-> "Email",
      requestType |-> "Request Type", description |-> "Request Description",
      priority |-> "Priority" ]

FirstValueOrEmpty(e, f) ==
    IF Titles[f] \in DOMAIN e THEN Str(e[Titles[f]][1]) ELSE Str("")

C23_WitnessNoEvent ==
    /\ script.fn = "none"
    /\ script.ran = "onFormSubmit"
    /\ script.e = Undefined
    /\ script.runs = 1

---------------------------------------------------------------------------
(* C24: an execution of processExistingRows visits the sheet rows 2 to     *)
(* lastRow in increasing order; the calls it has made are, in that order,  *)
(* one for each row already visited whose time stamp is before the cutoff, *)
(* with that row's columns B to G as payload, and none for any other row.  *)

\* the sheet rows from i to n that are before the cutoff, in increasing order
RECURSIVE RowsBeforeCutoff(_, _)
RowsBeforeCutoff(i, n) ==
    IF i > n THEN <<>>
    ELSE (IF sheet[i - 1].A < Cutoff THEN <<i>> ELSE <<>>) \o RowsBeforeCutoff(i + 1, n)

\* the last sheet row the execution has dealt with
Visited ==
    IF script.fn = "none" THEN Len(sheet) + 1
    ELSE IF script.pc = "waiting" THEN script.i
    ELSE script.i - 1

C24_OnePostPerRowBeforeCutoff ==
    (script.ran = "processExistingRows") =>
        /\ script.fn # "none" => script.i \in 2..(Len(sheet) + 2)
        /\ [ k \in DOMAIN script.posted |-> script.posted[k].i ] =
               RowsBeforeCutoff(2, Visited)
        /\ \A k \in DOMAIN script.posted :
               script.posted[k].payload = rowData(sheet[script.posted[k].i - 1])

\* a finished execution over a row before the cutoff and a row at the
\* cutoff: one call, for the first of them
C24_Witness ==
    /\ script.fn = "none"
    /\ script.ran = "processExistingRows"
    /\ Len(sheet) = 2
    /\ sheet[1].A < Cutoff
    /\ sheet[2].A = Cutoff
    /\ Len(script.posted) = 1
    /\ script.posted[1].i = 2

---------------------------------------------------------------------------
(* C25: in processExistingRows a call that throws or is answered with an   *)
(* error moves the loop to the next row; an execution that has ended has   *)
(* made a call for every row before the cutoff, whichever calls failed,    *)
(* and every execution ends.                                               *)

\* row i's call failed during the execution of processExistingRows at hand
FailedInThisSweep(i) ==
    sheet[i - 1].failed /\ sheet[i - 1].failedSweep = script.sweeps

C25_FailureMovesOn ==
    [][ ( /\ script.fn = "processExistingRows"
          /\ script.pc \in {"fetch", "waiting"}
          /\ script'.pc # script.pc
          /\ script'.pc # "waiting" ) =>
            ( /\ script'.fn = "processExistingRows"
              /\ script'.pc = "loop"
              /\ script'.i = script.i + 1 ) ]_vars

C25_EndedAfterLastRow ==
    (script.ran = "processExistingRows" /\ script.fn = "none") =>
        \A i \in 2..(Len(sheet) + 1) :
            sheet[i - 1].A < Cutoff => \E k \in DOMAIN script.posted : script.posted[k].i = i

C25_FailedRowDoesNotStopRun ==
    /\ []C25_EndedAfterLastRow
    /\ C25_FailureMovesOn
    /\ (script.fn = "processExistingRows") ~> (script.fn = "none")

\* an execution that ended although the call for its first row failed, with
\* a call made for the row after it
C25_Witness ==
    /\ script.ran = "processExistingRows"
    /\ script.fn = "none"
    /\ Len(sheet) = 2
    /\ FailedInThisSweep(2)
    /\ Len(script.posted) = 2
    /\ script.posted[2].i = 3

---------------------------------------------------------------------------
(* C26: for a request the script sent, the server's parsed data, payload   *)
(* and created task are those of the same body with every empty string     *)
(* left out: an empty field gets the default an absent field gets.         *)

\* the body with its empty strings taken out
WithoutBlanks(body) ==
    [ f \in DOMAIN body |-> IF body[f] = Str("") THEN Undefined ELSE body[f] ]

PayloadOf(formData, list) ==
    IF variant = "server.js" THEN createAsanaTaskByName(formData, list)
    ELSE createAsanaTaskByGid(formData)

C26_BlankTreatedAsAbsent ==
    \A r \in DOMAIN req :
        Parsed(r) =>
            LET body == req[r].body
                formData == req[r].formData
                absent == parseFormData(WithoutBlanks(body))
            IN  /\ formData = absent
                /\ body.email = Str("") => formData.email = "no-email@provided.com"
                /\ body.requestType = Str("") => formData.requestType = "General"
                /\ body.description = Str("") =>
                       formData.description = "No description provided"
                /\ body.priority = Str("") => formData.priority = "Medium"
                /\ (body.firstName = Str("") /\ body.lastName = Str("")) =>
                       formData.name = "Unnamed Request"
                /\ (body.firstName = Str("") /\ body.lastName = Str("Johnson")) =>
                       formData.name = "Johnson"
                /\ Composed(r) => req[r].taskData = PayloadOf(absent, req[r].listed)
                /\ (req[r].pc = "done" /\ req[r].res.status = 200) =>
                       \E i \in DOMAIN tasks :
                           /\ tasks[i].gid = req[r].res.json.taskId
                           /\ tasks[i].data = PayloadOf(absent, req[r].listed)

\* the task of a submission in which no question was answered
C26_Witness ==
    /\ script.e = BlankEvent
    /\ script.pc = "waiting"
    /\ req[1].pc = "done"
    /\ req[1].res.status = 200
    /\ req[1].body.priority = Str("")
    /\ req[1].formData.priority = "Medium"
    /\ \E i \in DOMAIN tasks : tasks[i].data = req[1].taskData

=============================================================================
